---- MODULE Spec2Model ----
(***************************************************************************)
(* A model of goblas Dgemm (src/dbw/level2.go, lines 758-1155): the entry   *)
(* point Blas.Dgemm, the scheduler dgemmParallel with its producer, its     *)
(* buffered channel and its worker goroutines, the planner                 *)
(* computeNumBlocks and the four serial kernels.                            *)
(* The level-2 wrappers of package dbw (lines 5-137 of the same file) are    *)
(* modelled beside it, as calls of their own (WrapSpec).                    *)
(*                                                                         *)
(* float64 values are modelled as <<n>> for the number n and <<>> for a     *)
(* non-finite value (NaN/Inf), which absorbs under * and + and compares     *)
(* unequal to every number.  A []float64 is a function from the offsets     *)
(* 0..len-1 to values.  A `general` is a record [base, rows, cols, stride]  *)
(* over one of the three caller-owned buffers a, b, c; base is the offset   *)
(* at which the view's data slice starts.                                   *)
(***************************************************************************)
EXTENDS Integers, Sequences, FiniteSets, TLC

\* ---------------------------------------------------------------- bounds
\* blockSize stands for the source's blockSize (64), scaled down so that
\* tiles, clipped edge tiles and several contraction chunks all occur.
blockSize == 2
\* 0 <= m <= MaxM, 0 <= n <= MaxN, 0 <= k <= MaxK
MaxM == 3
MaxN == 5
MaxK == 3
\* runtime.GOMAXPROCS(0) ranges over 1..MaxProcs
MaxProcs == 2
\* a stride is the row length plus 0..MaxPad
MaxPad == 1
\* the dimensions x.N, y.N, A.Rows, A.Cols, A.N of a wrapper call: 0..MaxDim
MaxDim == 2

\* ------------------------------------------------------ program constants
minParBlock == 4
buffMul == 4

\* blas.Transpose values; BadTrans is any value that is neither of the two
NoTrans == "NoTrans"
Trans == "Trans"
BadTrans == "BadTrans"

\* ------------------------------------------------------------- float64
NaN == <<>>
Num(x) == <<x>>
IsNaN(x) == x = NaN
Mul(x, y) == IF IsNaN(x) \/ IsNaN(y) THEN NaN ELSE Num(x[1] * y[1])
Add(x, y) == IF IsNaN(x) \/ IsNaN(y) THEN NaN ELSE Num(x[1] + y[1])
\* the Go comparison x != 0 (true for NaN)
NonZero(x) == x # Num(0)

Min(x, y) == IF x < y THEN x ELSE y
Max(x, y) == IF x > y THEN x ELSE y

\* ------------------------------------------------------------- general
General(base, rows, cols, stride) ==
    [base |-> base, rows |-> rows, cols |-> cols, stride |-> stride]

NoGeneral == General(0, 0, 0, 0)

\* len(data) of a buffer
BufLen(d) == Cardinality(DOMAIN d)

\* general.check(): nil (TRUE) or an error (FALSE)
check(g, len) ==
    /\ g.rows >= 0
    /\ g.cols >= 0
    /\ g.stride >= g.cols
    /\ (g.rows - 1) * g.stride + g.cols <= len

\* general.view(i, j, r, c): same buffer, same stride, offset by (i, j)
view(g, i, j, r, cc) == General(g.base + i * g.stride + j, r, cc, g.stride)

\* g.data[r*g.stride + cc]
Off(g, r, cc) == g.base + r * g.stride + cc

\* faulty variant of Region: each row taken as long as the stride
RegionWithPadding(g) ==
    { Off(g, r, cc) : r \in 0 .. g.rows - 1, cc \in 0 .. g.stride - 1 }
\* the offsets of the buffer that the logical rows x cols region of g covers
Region(g) == { Off(g, r, cc) : r \in 0 .. g.rows - 1, cc \in 0 .. g.cols - 1 }

\* ------------------------------------------------------ computeNumBlocks
\* faulty variant of NumBlocks: the block of the remainder forgotten
NumBlocksFloor(x) == x \div blockSize
\* x / blockSize, rounded up as the code rounds it
NumBlocks(x) == (x \div blockSize) + (IF x % blockSize # 0 THEN 1 ELSE 0)

computeNumBlocks(ga, gb, aTrans, bTrans) ==
    LET aRowBlocks == NumBlocks(ga.rows)
        aColBlocks == NumBlocks(ga.cols)
        bRowBlocks == NumBlocks(gb.rows)
        bColBlocks == NumBlocks(gb.cols)
    IN  CASE ~aTrans /\ ~bTrans ->
               [maxKLen |-> ga.cols, parBlocks |-> aRowBlocks * bColBlocks]
          [] aTrans /\ ~bTrans ->
               [maxKLen |-> ga.rows, parBlocks |-> aColBlocks * bColBlocks]
          [] ~aTrans /\ bTrans ->
               [maxKLen |-> ga.cols, parBlocks |-> aRowBlocks * bRowBlocks]
          [] aTrans /\ bTrans ->
               [maxKLen |-> ga.rows, parBlocks |-> aColBlocks * bRowBlocks]

\* ------------------------------------------------------- serial kernels
\* A kernel is given the three views and the buffers da, db, dc behind them
\* and yields the buffers as its stores leave them (a, b, c) and the offsets
\* of c it stored to (wr).  Its only store statement is `ctmp[j] += ...` on a
\* row slice of c.data; a.data and b.data are only ranged over and indexed.
\* A kernel's loops are modelled per element of c: the stores a kernel makes
\* to c[i][j] happen in ascending l in all four variants, so the element's
\* final value (XxxVal) is what the code's additions for l = 0, 1, ... leave
\* (XxxAcc, from l on).  XxxHit says whether the kernel stores to the elements
\* of row i at all: the skipping kernels store only under a non-zero
\* multiplier.  The kernel's loops visit the elements (i, j), i < rows,
\* j < cols, of the view gc; an offset of the buffer is mapped back to its
\* (i, j) through the stride, which check() holds to be no less than the row
\* length.  The dimension tests under `if debug` at the head of each kernel
\* are left out: debug is a build constant that src/ does not define, and
\* the views Dgemm and dgemmParallel pass always agree in their dimensions.
Row(gc, off) == (off - gc.base) \div gc.stride
Col(gc, off) == (off - gc.base) % gc.stride
Visited(gc, rows, cols, off) ==
    /\ gc.stride > 0 /\ off >= gc.base
    /\ Row(gc, off) < rows /\ Col(gc, off) < cols

\* for i < a.rows; for l, v in a[i][:a.cols]; tmp := alpha*v;
\*   if tmp != 0 { for j, w in b[l][:b.cols] { c[i][j] += tmp*w } }
NotNotHit(i, ga, al, da) ==
    \E l \in 0 .. ga.cols - 1 : NonZero(Mul(al, da[Off(ga, i, l)]))
RECURSIVE NotNotAcc(_, _, _, _, _, _, _, _, _)
NotNotAcc(acc, l, i, j, ga, gb, al, da, db) ==
    IF l >= ga.cols THEN acc
    ELSE NotNotAcc(IF NonZero(Mul(al, da[Off(ga, i, l)]))
                   THEN Add(acc, Mul(Mul(al, da[Off(ga, i, l)]), db[Off(gb, l, j)]))
                   ELSE acc,
                   l + 1, i, j, ga, gb, al, da, db)
NotNotVal(i, j, ga, gb, gc, al, da, db, dc) ==
    NotNotAcc(dc[Off(gc, i, j)], 0, i, j, ga, gb, al, da, db)
\* faulty variant of dgemmSerialNotNot: alpha is multiplied into a in
\* place (a[i][l] *= alpha) before the products are formed
dgemmSerialNotNotScalesA(ga, gb, gc, al, da, db, dc) ==
    LET st(off) == /\ Visited(gc, ga.rows, gb.cols, off)
                   /\ NotNotHit(Row(gc, off), ga, al, da)
    IN  [ok |-> TRUE,
         a  |-> [off \in DOMAIN da |->
                   IF off \in Region(ga) THEN Mul(al, da[off]) ELSE da[off]],
         b  |-> db,
         c  |-> [off \in DOMAIN dc |->
                   IF st(off)
                   THEN NotNotVal(Row(gc, off), Col(gc, off), ga, gb, gc, al, da, db, dc)
                   ELSE dc[off]],
         wr |-> { off \in DOMAIN dc : st(off) }]
dgemmSerialNotNot(ga, gb, gc, al, da, db, dc) ==
    LET st(off) == /\ Visited(gc, ga.rows, gb.cols, off)
                   /\ NotNotHit(Row(gc, off), ga, al, da)
    IN  [ok |-> TRUE, a |-> da, b |-> db,
         c  |-> [off \in DOMAIN dc |->
                   IF st(off)
                   THEN NotNotVal(Row(gc, off), Col(gc, off), ga, gb, gc, al, da, db, dc)
                   ELSE dc[off]],
         wr |-> { off \in DOMAIN dc : st(off) }]

\* for l < a.rows; for i, v in a[l][:a.cols]; tmp := alpha*v;
\*   if tmp != 0 { for j, w in b[l][:b.cols] { c[i][j] += tmp*w } }
TransNotHit(i, ga, al, da) ==
    \E l \in 0 .. ga.rows - 1 : NonZero(Mul(al, da[Off(ga, l, i)]))
RECURSIVE TransNotAcc(_, _, _, _, _, _, _, _, _)
TransNotAcc(acc, l, i, j, ga, gb, al, da, db) ==
    IF l >= ga.rows THEN acc
    ELSE TransNotAcc(IF NonZero(Mul(al, da[Off(ga, l, i)]))
                     THEN Add(acc, Mul(Mul(al, da[Off(ga, l, i)]), db[Off(gb, l, j)]))
                     ELSE acc,
                     l + 1, i, j, ga, gb, al, da, db)
TransNotVal(i, j, ga, gb, gc, al, da, db, dc) ==
    TransNotAcc(dc[Off(gc, i, j)], 0, i, j, ga, gb, al, da, db)
dgemmSerialTransNot(ga, gb, gc, al, da, db, dc) ==
    LET st(off) == /\ Visited(gc, ga.cols, gb.cols, off)
                   /\ TransNotHit(Row(gc, off), ga, al, da)
    IN  [ok |-> TRUE, a |-> da, b |-> db,
         c  |-> [off \in DOMAIN dc |->
                   IF st(off)
                   THEN TransNotVal(Row(gc, off), Col(gc, off), ga, gb, gc, al, da, db, dc)
                   ELSE dc[off]],
         wr |-> { off \in DOMAIN dc : st(off) }]

\* for i < a.rows; for j < b.rows; tmp := 0;
\*   for l, v in b[j][:b.cols] { tmp += a[i][l]*v }; c[i][j] += alpha*tmp
RECURSIVE NotTransAcc(_, _, _, _, _, _, _, _)
NotTransAcc(tmp, l, i, j, ga, gb, da, db) ==
    IF l >= gb.cols THEN tmp
    ELSE NotTransAcc(Add(tmp, Mul(da[Off(ga, i, l)], db[Off(gb, j, l)])),
                     l + 1, i, j, ga, gb, da, db)
\* faulty variant of NotTransVal: c[i][j] += tmp, the factor alpha forgotten
NotTransValNoAlpha(i, j, ga, gb, gc, al, da, db, dc) ==
    Add(dc[Off(gc, i, j)], NotTransAcc(Num(0), 0, i, j, ga, gb, da, db))
NotTransVal(i, j, ga, gb, gc, al, da, db, dc) ==
    Add(dc[Off(gc, i, j)], Mul(al, NotTransAcc(Num(0), 0, i, j, ga, gb, da, db)))
dgemmSerialNotTrans(ga, gb, gc, al, da, db, dc) ==
    LET st(off) == Visited(gc, ga.rows, gb.rows, off)
    IN  [ok |-> TRUE, a |-> da, b |-> db,
         c  |-> [off \in DOMAIN dc |->
                   IF st(off)
                   THEN NotTransVal(Row(gc, off), Col(gc, off), ga, gb, gc, al, da, db, dc)
                   ELSE dc[off]],
         wr |-> { off \in DOMAIN dc : st(off) }]

\* for l < a.rows; for i, v in a[l][:a.cols];
\*   if v != 0 { tmp := alpha*v; for j < b.rows { c[i][j] += tmp*b[j][l] } }
TransTransHit(i, ga, al, da) ==
    \E l \in 0 .. ga.rows - 1 : NonZero(da[Off(ga, l, i)])
RECURSIVE TransTransAcc(_, _, _, _, _, _, _, _, _)
TransTransAcc(acc, l, i, j, ga, gb, al, da, db) ==
    IF l >= ga.rows THEN acc
    ELSE TransTransAcc(IF NonZero(da[Off(ga, l, i)])
                       THEN Add(acc, Mul(Mul(al, da[Off(ga, l, i)]), db[Off(gb, j, l)]))
                       ELSE acc,
                       l + 1, i, j, ga, gb, al, da, db)
TransTransVal(i, j, ga, gb, gc, al, da, db, dc) ==
    TransTransAcc(dc[Off(gc, i, j)], 0, i, j, ga, gb, al, da, db)
dgemmSerialTransTrans(ga, gb, gc, al, da, db, dc) ==
    LET st(off) == /\ Visited(gc, ga.cols, gb.rows, off)
                   /\ TransTransHit(Row(gc, off), ga, al, da)
    IN  [ok |-> TRUE, a |-> da, b |-> db,
         c  |-> [off \in DOMAIN dc |->
                   IF st(off)
                   THEN TransTransVal(Row(gc, off), Col(gc, off), ga, gb, gc, al, da, db, dc)
                   ELSE dc[off]],
         wr |-> { off \in DOMAIN dc : st(off) }]

\* the tests each kernel makes under `if debug`: "" when they pass, the
\* panic's message otherwise
InnerMismatch == "inner dimension mismatch"
OuterMismatch == "outer dimension mismatch"
debugNotNot(ga, gb, gc) ==
    IF ga.cols # gb.rows THEN InnerMismatch
    ELSE IF ga.rows # gc.rows THEN OuterMismatch
    ELSE IF gb.cols # gc.cols THEN OuterMismatch ELSE ""
debugTransNot(ga, gb, gc) ==
    IF ga.rows # gb.rows THEN InnerMismatch
    ELSE IF ga.cols # gc.rows THEN OuterMismatch
    ELSE IF gb.cols # gc.cols THEN OuterMismatch ELSE ""
debugNotTrans(ga, gb, gc) ==
    IF ga.cols # gb.cols THEN InnerMismatch
    ELSE IF ga.rows # gc.rows THEN OuterMismatch
    ELSE IF gb.rows # gc.cols THEN OuterMismatch ELSE ""
debugTransTrans(ga, gb, gc) ==
    IF ga.rows # gb.cols THEN InnerMismatch
    ELSE IF ga.cols # gc.rows THEN OuterMismatch
    ELSE IF gb.rows # gc.cols THEN OuterMismatch ELSE ""
\* the tests of the kernel dgemmSerial dispatches to
debugTests(ta, tb, ga, gb, gc) ==
    CASE ta = NoTrans /\ tb = NoTrans -> debugNotNot(ga, gb, gc)
      [] ta = Trans /\ tb = NoTrans -> debugTransNot(ga, gb, gc)
      [] ta = NoTrans /\ tb = Trans -> debugNotTrans(ga, gb, gc)
      [] ta = Trans /\ tb = Trans -> debugTransTrans(ga, gb, gc)
      [] OTHER -> "unreachable"

\* dgemmSerial: the kernel for the flag pair, or panic("unreachable")
dgemmSerial(ta, tb, ga, gb, gc, al, da, db, dc) ==
    CASE ta = NoTrans /\ tb = NoTrans -> dgemmSerialNotNot(ga, gb, gc, al, da, db, dc)
      [] ta = Trans /\ tb = NoTrans -> dgemmSerialTransNot(ga, gb, gc, al, da, db, dc)
      [] ta = NoTrans /\ tb = Trans -> dgemmSerialNotTrans(ga, gb, gc, al, da, db, dc)
      [] ta = Trans /\ tb = Trans -> dgemmSerialTransTrans(ga, gb, gc, al, da, db, dc)
      [] OTHER -> [ok |-> FALSE, a |-> da, b |-> db, c |-> dc, wr |-> {}]

\* ---------------------------------------------------------------- state
VARIABLES
    \* the arguments of the call Dgemm(tA, tB, m, n, k, alpha, a, lda, b, ldb, beta, c, ldc)
    tA, tB, m, n, k, alpha, beta, lda, ldb, ldc, a, b, c,
    procs,      \* runtime.GOMAXPROCS(0)
    \* the calling goroutine
    pc,         \* its position in Dgemm / dgemmParallel
    panicMsg,   \* the panic that ended the call, "" if none
    amat, bmat, cmat,
    maxKLen, parBlocks, nWorkers, buf,
    li,         \* the launch loop's i
    si, sj,     \* the producer loops' i and j
    \* the channel and the wait group
    made,       \* sendChan has been made
    sendChan,   \* the buffered tasks, oldest first
    closed,
    wg,
    \* the worker goroutines: [pc, i, j, leni, lenj, cSub, k]
    worker,
    \* history
    a0, b0, c0, \* the buffers at the call
    scaled,     \* offsets of c the scaling pass stored to
    serialCalls,\* whole-matrix dgemmSerial calls made by dgemmParallel
    sent,       \* the tasks sent, in order
    recvd,      \* per worker, the tasks it received, in order
    chunks,     \* the kernel invocations made by workers: [w, i, j, k, lenk]
    writers,    \* per offset of c, the goroutines whose kernel stored to it
                \* (0 is the calling goroutine)
    \* a call of a level-2 wrapper: [fn, tA, xN, yN, rows, cols, aN, pc,
    \* kernel, msg]
    wrap

dargs == <<tA, tB, m, n, k, alpha, beta, lda, ldb, ldc, procs, a0, b0, c0>>
\* what Dgemm never assigns: its arguments and the wrappers' state
call == <<dargs, wrap>>
args == <<call, a, b>>
mats == <<amat, bmat, cmat>>
plan == <<maxKLen, parBlocks, nWorkers, buf>>
chan == <<made, sendChan, closed>>
hist == <<scaled, serialCalls, sent, recvd, chunks, writers>>
vars == <<args, c, pc, panicMsg, mats, plan, li, si, sj, chan, wg, worker, hist>>

Workers == 1 .. MaxProcs
ValidFlags == {NoTrans, Trans}
Flags == {NoTrans, Trans, BadTrans}

\* no wrapper is being called
NoWrap == [fn |-> "", tA |-> NoTrans, xN |-> 0, yN |-> 0, rows |-> 0, cols |-> 0,
           aN |-> 0, pc |-> "idle", kernel |-> "", msg |-> ""]

NoWorker == [pc |-> "none", i |-> 0, j |-> 0, leni |-> 0, lenj |-> 0,
             cSub |-> NoGeneral, k |-> 0]

\* ---------------------------------------------------------------- inputs
\* rows and columns of the a and b the caller passes, as Dgemm reads them
ARows(ta, mm, kk) == IF ta = Trans THEN kk ELSE mm
ACols(ta, mm, kk) == IF ta = Trans THEN mm ELSE kk
BRows(tb, nn, kk) == IF tb = Trans THEN nn ELSE kk
BCols(tb, nn, kk) == IF tb = Trans THEN kk ELSE nn

\* the least buffer length check() accepts
ReqLen(rows, cols, stride) ==
    IF rows > 0 /\ cols >= 0 THEN (rows - 1) * stride + cols ELSE 0

\* a buffer of len values in -2..2, one of them non-finite when nan is set
GenBuf(len, seed, nan) ==
    [off \in 0 .. len - 1 |->
        IF nan /\ off = 0 THEN NaN ELSE Num(((seed + 3 * off) % 5) - 2)]

\* the calls the model starts from: in = [tA, tB, m, n, k, alpha, beta, pad,
\* nan, bad, procs]; nan names the buffer holding a non-finite value, bad the
\* argument made one too small.
Shapes == (0 .. MaxM) \X (0 .. MaxN) \X (0 .. MaxK)
SomeShapes == { <<2, 2, 2>>, <<1, 2, MaxK>>, <<MaxM, MaxN - 2, MaxK>> }
Input(ta, tb, sh, al, be, pad, nan, bad, pr) ==
    [tA |-> ta, tB |-> tb, m |-> sh[1], n |-> sh[2], k |-> sh[3], alpha |-> al,
     beta |-> be, pad |-> pad, nan |-> nan, bad |-> bad, procs |-> pr]

ShapeInputs ==
    { Input(ta, tb, sh, Num(2), Num(3), MaxPad, "none", "none", pr) :
        ta \in ValidFlags, tb \in ValidFlags, sh \in Shapes, pr \in 1 .. MaxProcs }
ScalarInputs ==
    { Input(ta, tb, sh, Num(al), Num(be), pad, nan, "none", 1) :
        ta \in ValidFlags, tb \in ValidFlags, sh \in SomeShapes,
        al \in 0 .. 2, be \in 0 .. 2, pad \in 0 .. MaxPad,
        nan \in {"none", "a", "b", "c"} }
\* calls whose alpha is a non-finite value, with and without a contraction
NonFiniteAlphaInputs ==
    { Input(ta, tb, sh, NaN, Num(be), MaxPad, "none", "none", 1) :
        ta \in ValidFlags, tb \in ValidFlags,
        sh \in { <<2, 2, 0>>, <<2, 2, 2>>, <<MaxM, MaxN - 2, 0>> },
        be \in 1 .. 2 }
BadInputs ==
    { Input(ta, tb, sh, Num(1), Num(2), MaxPad, "none", bad, 1) :
        ta \in Flags, tb \in Flags, sh \in SomeShapes \cup {<<0 - 1, 2, 2>>},
        bad \in {"none", "lda", "ldb", "ldc", "lena", "lenb", "lenc"} }
Inputs ==
    { in \in ShapeInputs :
        in.procs = 1 \/ NumBlocks(in.m) * NumBlocks(in.n) >= minParBlock }
    \cup ScalarInputs \cup NonFiniteAlphaInputs \cup BadInputs

InitWith(in) ==
    LET aStride == Max(1, ACols(in.tA, in.m, in.k) + in.pad) - (IF in.bad = "lda" THEN in.pad + 1 ELSE 0)
        bStride == Max(1, BCols(in.tB, in.n, in.k) + in.pad) - (IF in.bad = "ldb" THEN in.pad + 1 ELSE 0)
        cStride == Max(1, in.n + in.pad) - (IF in.bad = "ldc" THEN in.pad + 1 ELSE 0)
        aLen == ReqLen(ARows(in.tA, in.m, in.k), ACols(in.tA, in.m, in.k), aStride)
                  - (IF in.bad = "lena" THEN 1 ELSE 0)
        bLen == ReqLen(BRows(in.tB, in.n, in.k), BCols(in.tB, in.n, in.k), bStride)
                  - (IF in.bad = "lenb" THEN 1 ELSE 0)
        \* c is passed with its last row padded to the stride as well, and
        \* with one element more past the last row
        cLen == IF in.bad = "lenc" THEN ReqLen(in.m, in.n, cStride) - 1
                ELSE Max(0, in.m * cStride) + 1
        bufA == GenBuf(aLen, 0, in.nan = "a")
        bufB == GenBuf(bLen, 1, in.nan = "b")
        bufC == GenBuf(cLen, 2, in.nan = "c")
    IN  /\ tA = in.tA /\ tB = in.tB
        /\ m = in.m /\ n = in.n /\ k = in.k
        /\ alpha = in.alpha /\ beta = in.beta
        /\ lda = aStride /\ ldb = bStride /\ ldc = cStride
        /\ a = bufA /\ b = bufB /\ c = bufC
        /\ a0 = bufA /\ b0 = bufB /\ c0 = bufC
        /\ procs = in.procs
        /\ pc = "checkA" /\ panicMsg = ""
        /\ amat = NoGeneral /\ bmat = NoGeneral /\ cmat = NoGeneral
        /\ maxKLen = 0 /\ parBlocks = 0 /\ nWorkers = 0 /\ buf = 0
        /\ li = 0 /\ si = 0 /\ sj = 0
        /\ made = FALSE /\ sendChan = <<>> /\ closed = FALSE
        /\ wg = 0
        /\ worker = [w \in Workers |-> NoWorker]
        /\ scaled = {} /\ serialCalls = 0 /\ sent = <<>>
        /\ recvd = [w \in Workers |-> <<>>]
        /\ chunks = {}
        /\ writers = [off \in DOMAIN bufC |-> {}]
        /\ wrap = NoWrap

Init == \E in \in Inputs : InitWith(in)

\* ------------------------------------------------------------ Blas.Dgemm
Panic(msg) == pc' = "panic" /\ panicMsg' = msg

\* amat := general{a, rows, cols, lda}; err := amat.check(); panic(err)
CheckA ==
    /\ pc = "checkA"
    /\ amat' = IF tA = Trans THEN General(0, k, m, lda) ELSE General(0, m, k, lda)
    /\ IF check(amat', BufLen(a)) THEN pc' = "checkB" /\ panicMsg' = panicMsg
                               ELSE Panic("check")
    /\ UNCHANGED <<args, c, bmat, cmat, plan, li, si, sj, chan, wg, worker, hist>>

CheckB ==
    /\ pc = "checkB"
    /\ bmat' = IF tB = Trans THEN General(0, n, k, ldb) ELSE General(0, k, n, ldb)
    /\ IF check(bmat', BufLen(b)) THEN pc' = "checkC" /\ panicMsg' = panicMsg
                               ELSE Panic("check")
    /\ UNCHANGED <<args, c, amat, cmat, plan, li, si, sj, chan, wg, worker, hist>>

CheckC ==
    /\ pc = "checkC"
    /\ cmat' = General(0, m, n, ldc)
    /\ IF check(cmat', BufLen(c)) THEN pc' = "checkFlags" /\ panicMsg' = panicMsg
                               ELSE Panic("check")
    /\ UNCHANGED <<args, c, amat, bmat, plan, li, si, sj, chan, wg, worker, hist>>

\* faulty variants of BadFlags: one of the two flag tests left out
BadFlagsOnlyA(ta, tb) == ta # Trans /\ ta # NoTrans
BadFlagsOnlyB(ta, tb) == tb # Trans /\ tb # NoTrans
\* the two flag tests that panic(badTranspose)
BadFlags(ta, tb) ==
    \/ ta # Trans /\ ta # NoTrans
    \/ tb # Trans /\ tb # NoTrans

\* if tA != Trans && tA != NoTrans { panic(badTranspose) }; the same for tB
CheckFlags ==
    /\ pc = "checkFlags"
    /\ IF BadFlags(tA, tB) THEN Panic("badTranspose")
                           ELSE pc' = "scale" /\ panicMsg' = panicMsg
    /\ UNCHANGED <<args, c, mats, plan, li, si, sj, chan, wg, worker, hist>>

\* the buffer of c after `if beta != 1 { for i < m { ctmp[j] *= beta } }`
\* faulty variant of ScaleC: the row loop stops one row short (i < m - 1)
ScaleCShortOfLastRow(gc, be, dc) ==
    IF be # Num(1)
    THEN [off \in DOMAIN dc |->
            IF Visited(gc, gc.rows - 1, gc.cols, off) THEN Mul(dc[off], be) ELSE dc[off]]
    ELSE dc
ScaleC(gc, be, dc) ==
    IF be # Num(1)
    THEN [off \in DOMAIN dc |-> IF off \in Region(gc) THEN Mul(dc[off], be) ELSE dc[off]]
    ELSE dc

Scale ==
    /\ pc = "scale"
    /\ c' = ScaleC(cmat, beta, c)
    /\ scaled' = IF beta # Num(1) THEN Region(cmat) ELSE {}
    /\ pc' = "dgemmParallel"
    /\ UNCHANGED <<args, panicMsg, mats, plan, li, si, sj, chan, wg, worker,
                   serialCalls, sent, recvd, chunks, writers>>

\* --------------------------------------------------------- dgemmParallel
\* faulty variant of Step: the loops advance by one, tiles overlap
StepOne(x) == x + 1
\* i += blockSize, j += blockSize, k += blockSize
Step(x) == x + blockSize

\* the producer's loop conditions `i < c.rows` and (at j = 0) `j < c.cols`:
\* with i = ni the producer is in the loop body, or past the loops
\* (SendPcWhole is a faulty variant that sends whole blocks of rows only)
SendPcWhole(ni) == IF ni + blockSize <= cmat.rows /\ 0 < cmat.cols THEN "send" ELSE "close"
SendPc(ni) == IF ni < cmat.rows /\ 0 < cmat.cols THEN "send" ELSE "close"

\* faulty variant of KLoop: only the first chunk of a tile is done
KLoopFirstOnly(kk, maxK) == kk < maxK /\ kk = 0
\* the worker's loop condition `k < maxKLen`
\* (KLoopWhole is a faulty variant that leaves out the clipped last chunk)
KLoopWhole(kk, maxK) == kk + blockSize <= maxK
KLoop(kk, maxK) == kk < maxK

\* wg.Wait() returns when the counter is zero
\* (WaitNoWait is a faulty variant that returns at once)
WaitNoWait(cnt) == TRUE
WaitReturns(cnt) == cnt = 0

\* `range sendChan` ends when the channel is closed and drained
\* (RangeNeverEnds is a faulty variant: the close is never seen)
\* (RangeEndsAtClose is a faulty variant: buffered tasks are dropped at close)
RangeEndsAtClose(q, cl) == cl
RangeNeverEnds(q, cl) == FALSE
RangeEnds(q, cl) == q = <<>> /\ cl

\* the threshold test `parBlocks < minParBlock`
\* (BelowMinParBlockLow is a faulty variant with the threshold one too low)
BelowMinParBlockLow(pb) == pb < minParBlock - 1
BelowMinParBlock(pb) == pb < minParBlock

\* parBlocks < minParBlock: dgemmSerial(tA, tB, a, b, c, alpha); return
SerialPath ==
    /\ pc = "dgemmParallel"
    /\ \E nb \in {computeNumBlocks(amat, bmat, tA = Trans, tB = Trans)},
          r \in {dgemmSerial(tA, tB, amat, bmat, cmat, alpha, a, b, c)} :
           /\ BelowMinParBlock(nb.parBlocks)
           /\ maxKLen' = nb.maxKLen /\ parBlocks' = nb.parBlocks
           /\ IF r.ok THEN pc' = "done" /\ panicMsg' = panicMsg
                      ELSE Panic("unreachable")
           /\ a' = r.a /\ b' = r.b /\ c' = r.c
           /\ writers' = [off \in DOMAIN writers |->
                            IF off \in r.wr THEN writers[off] \cup {0} ELSE writers[off]]
    /\ serialCalls' = serialCalls + 1
    /\ UNCHANGED <<call, mats, nWorkers, buf, li, si, sj, chan, wg, worker,
                   scaled, sent, recvd, chunks>>

\* nWorkers := runtime.GOMAXPROCS(0); if parBlocks < nWorkers { nWorkers = parBlocks }
WorkerCount(pr, pb) == IF pb < pr THEN pb ELSE pr
\* faulty variant of BufCap: the cap at parBlocks left out
BufCapUncapped(nw, pb) == buffMul * nw
\* buf := buffMul * nWorkers; if buf > parBlocks { buf = parBlocks }
BufCap(nw, pb) == IF buffMul * nw > pb THEN pb ELSE buffMul * nw

\* nWorkers, buf and sendChan := make(chan subMul, buf)
MakeChan ==
    /\ pc = "dgemmParallel"
    /\ LET nb == computeNumBlocks(amat, bmat, tA = Trans, tB = Trans)
           nw == WorkerCount(procs, nb.parBlocks)
           bf == BufCap(nw, nb.parBlocks)
       IN  /\ ~BelowMinParBlock(nb.parBlocks)
           /\ maxKLen' = nb.maxKLen /\ parBlocks' = nb.parBlocks
           /\ nWorkers' = nw /\ buf' = bf
           /\ pc' = IF 0 < nw THEN "launch" ELSE SendPc(0)
    /\ made' = TRUE
    /\ li' = 0 /\ si' = 0 /\ sj' = 0
    /\ UNCHANGED <<args, c, panicMsg, mats, sendChan, closed, wg, worker, hist>>

\* for i < nWorkers { wg.Add(1); go func() {...}() }
Launch ==
    /\ pc = "launch"
    /\ wg' = wg + 1
    /\ worker' = [worker EXCEPT ![li + 1] = [NoWorker EXCEPT !.pc = "recv"]]
    /\ li' = li + 1
    /\ pc' = IF li + 1 < nWorkers THEN "launch" ELSE SendPc(0)
    /\ UNCHANGED <<args, c, panicMsg, mats, plan, si, sj, chan, hist>>

\* faulty variant of NextTile: the loops nested the other way round
NextTileColumnFirst(i, j, gc) ==
    IF Step(i) < gc.rows THEN [i |-> Step(i), j |-> j] ELSE [i |-> 0, j |-> Step(j)]
\* the loop variables after the body at (i, j): j += blockSize and, when the
\* inner loop ends, i += blockSize with j := 0
NextTile(i, j, gc) ==
    IF Step(j) < gc.cols THEN [i |-> i, j |-> Step(j)] ELSE [i |-> Step(i), j |-> 0]

\* sendChan <- subMul{i, j}, blocking while the buffer is full; then j += blockSize
\* and, past the last column, i += blockSize
Send ==
    /\ pc = "send"
    /\ Len(sendChan) < buf
    /\ sendChan' = Append(sendChan, [i |-> si, j |-> sj])
    /\ sent' = Append(sent, [i |-> si, j |-> sj])
    /\ \E nx \in {NextTile(si, sj, cmat)} :
           /\ si' = nx.i /\ sj' = nx.j
           /\ pc' = SendPc(nx.i)
    /\ UNCHANGED <<args, c, panicMsg, mats, plan, li, made, closed, wg, worker,
                   scaled, serialCalls, recvd, chunks, writers>>

\* close(sendChan)
Close ==
    /\ pc = "close"
    /\ closed' = TRUE
    /\ pc' = "wait"
    /\ UNCHANGED <<args, c, panicMsg, mats, plan, li, si, sj, made, sendChan, wg,
                   worker, hist>>

\* wg.Wait() returns when the counter is zero
Wait ==
    /\ pc = "wait"
    /\ WaitReturns(wg)
    /\ pc' = "done"
    /\ UNCHANGED <<args, c, panicMsg, mats, plan, li, si, sj, chan, wg, worker, hist>>

\* ---------------------------------------------------------- the workers
\* faulty variant of Clip: the length is never cut at the edge
ClipNever(i, rows) == blockSize
\* leni := blockSize; if i+leni > crows { leni = crows - i }
Clip(i, rows) == IF i + blockSize > rows THEN rows - i ELSE blockSize

\* `for sub := range sendChan` receives a task; cSub := c.view(i, j, leni, lenj)
Recv(w) ==
    /\ worker[w].pc = "recv"
    /\ sendChan # <<>>
    /\ LET sub == Head(sendChan)
           leni == Clip(sub.i, cmat.rows)
           lenj == Clip(sub.j, cmat.cols)
       IN  /\ worker' = [worker EXCEPT ![w] =
                 [pc |-> IF KLoop(0, maxKLen) THEN "k" ELSE "recv",
                  i |-> sub.i, j |-> sub.j, leni |-> leni, lenj |-> lenj,
                  cSub |-> view(cmat, sub.i, sub.j, leni, lenj), k |-> 0]]
           /\ recvd' = [recvd EXCEPT ![w] = Append(@, sub)]
    /\ sendChan' = Tail(sendChan)
    /\ UNCHANGED <<args, c, pc, panicMsg, mats, plan, li, si, sj, made, closed, wg,
                   scaled, serialCalls, sent, chunks, writers>>

\* faulty variant of ASub: the view of a taken as for NoTrans whatever tA is
ASubUntransposed(w, kk, lenk) == view(amat, worker[w].i, kk, worker[w].leni, lenk)
\* the arguments (i, j, r, c) of the view calls for the chunk [kk, kk + lenk)
ASubArgs(w, kk, lenk) ==
    IF tA = Trans THEN [i |-> kk, j |-> worker[w].i, r |-> lenk, c |-> worker[w].leni]
                  ELSE [i |-> worker[w].i, j |-> kk, r |-> worker[w].leni, c |-> lenk]
BSubArgs(w, kk, lenk) ==
    IF tB = Trans THEN [i |-> worker[w].j, j |-> kk, r |-> worker[w].lenj, c |-> lenk]
                  ELSE [i |-> kk, j |-> worker[w].j, r |-> lenk, c |-> worker[w].lenj]
\* the sub-views of a and b for the chunk [kk, kk + lenk)
ASub(w, kk, lenk) ==
    view(amat, ASubArgs(w, kk, lenk).i, ASubArgs(w, kk, lenk).j,
         ASubArgs(w, kk, lenk).r, ASubArgs(w, kk, lenk).c)
BSub(w, kk, lenk) ==
    view(bmat, BSubArgs(w, kk, lenk).i, BSubArgs(w, kk, lenk).j,
         BSubArgs(w, kk, lenk).r, BSubArgs(w, kk, lenk).c)

\* one pass of `for k := 0; k < maxKLen; k += blockSize`:
\* dgemmSerial(tA, tB, aSub, bSub, cSub, alpha)
Chunk(w) ==
    /\ worker[w].pc = "k"
    /\ worker' = [worker EXCEPT
          ![w].k = Step(worker[w].k),
          ![w].pc = IF KLoop(Step(worker[w].k), maxKLen) THEN "k" ELSE "recv"]
    /\ UNCHANGED <<call, mats, plan, li, si, sj, chan, wg, scaled, serialCalls,
                   sent, recvd>>
    /\ \E kk \in {worker[w].k} : \E lenk \in {Clip(kk, maxKLen)} :
       \E aSub \in {ASub(w, kk, lenk)}, bSub \in {BSub(w, kk, lenk)},
          cSub \in {worker[w].cSub} :
       \E r \in {dgemmSerial(tA, tB, aSub, bSub, cSub, alpha, a, b, c)} :
           /\ IF r.ok THEN pc' = pc /\ panicMsg' = panicMsg
                      ELSE Panic("unreachable")
           /\ a' = r.a /\ b' = r.b /\ c' = r.c
           /\ writers' = [off \in DOMAIN writers |->
                            IF off \in r.wr THEN writers[off] \cup {w} ELSE writers[off]]
           /\ chunks' = chunks \cup
                 {[w |-> w, i |-> worker[w].i, j |-> worker[w].j, k |-> kk, lenk |-> lenk]}

\* the range loop ends on the closed, drained channel; the deferred wg.Done() runs
Exit(w) ==
    /\ worker[w].pc = "recv"
    /\ RangeEnds(sendChan, closed)
    /\ worker' = [worker EXCEPT ![w].pc = "exit"]
    /\ wg' = wg - 1
    /\ UNCHANGED <<args, c, pc, panicMsg, mats, plan, li, si, sj, chan, hist>>

Next ==
    \/ CheckA \/ CheckB \/ CheckC \/ CheckFlags \/ Scale
    \/ SerialPath \/ MakeChan \/ Launch \/ Send \/ Close \/ Wait
    \/ \E w \in Workers : Recv(w)
    \/ \E w \in Workers : Chunk(w)
    \/ \E w \in Workers : Exit(w)

Spec == Init /\ [][Next]_vars

\* the calls with valid arguments and finite values, in every shape, flag
\* pair and worker count: the calls the scheduler's properties are about
PoolInit == \E in \in Inputs \cap ShapeInputs : InitWith(in)
PoolSpec == PoolInit /\ [][Next]_vars

\* the steps of the calling goroutine and of worker w; the Go scheduler
\* lets every goroutine that stays runnable run
Caller ==
    \/ CheckA \/ CheckB \/ CheckC \/ CheckFlags \/ Scale
    \/ SerialPath \/ MakeChan \/ Launch \/ Send \/ Close \/ Wait
WorkerStep(w) == Recv(w) \/ Chunk(w) \/ Exit(w)

\* the calls the fair specification starts from: the largest output, with an
\* empty and with a clipped contraction range, and a one-tile output; one
\* worker (the producer outruns the channel's buffer) or MaxProcs workers
FairShapes == { <<MaxM, MaxN, 0>>, <<MaxM, MaxN, MaxK>>, <<1, 1, 1>> }
FairInputs ==
    { Input(ta, ta, sh, Num(2), Num(3), 0, "none", "none", pr) :
        ta \in ValidFlags, sh \in FairShapes, pr \in {1, MaxProcs} }
FairInit == \E in \in FairInputs : InitWith(in)

FairSpec ==
    /\ FairInit /\ [][Next]_vars
    /\ WF_vars(Caller)
    /\ \A w \in Workers : WF_vars(WorkerStep(w))

\* ------------------------------------------------- the level-2 wrappers
\* Each wrapper tests the dimensions of its arguments, panics with a message
\* or calls the routine of the implementation (impl.Dxxx, which is not part
\* of src/ and is modelled as the record of its call).
DimensionMismatch == "blas: dimension mismatch"
IllegalTA == "blas: illegal value for tA"

\* the end of a wrapper: panic(msg), or the call of its kernel and return
WrapEnd(w, msg, kern) ==
    IF msg # "" THEN [w EXCEPT !.pc = "panic", !.msg = msg]
                ELSE [w EXCEPT !.pc = "done", !.kernel = kern]

\* the variables of Dgemm, which no wrapper touches
dgemmVars == <<dargs, a, b, c, pc, panicMsg, mats, plan, li, si, sj, chan, wg,
               worker, hist>>

\* faulty variant of GemvCheck: the dimensions are tested as for NoTrans
\* whatever tA is
GemvCheckNoTransOnly(ta, xn, yn, r, cc) ==
    IF xn # cc \/ yn # r THEN DimensionMismatch ELSE ""
\* the tests of Gemv: "" when they pass, the panic's message otherwise
GemvCheck(ta, xn, yn, r, cc) ==
    IF ta = NoTrans
    THEN (IF xn # cc \/ yn # r THEN DimensionMismatch ELSE "")
    ELSE IF ta = Trans
         THEN (IF xn # r \/ yn # cc THEN DimensionMismatch ELSE "")
         ELSE IllegalTA
\* the tests of Gbmv
GbmvCheck(ta, xn, yn, r, cc) ==
    IF ta = NoTrans
    THEN (IF xn # cc \/ yn # r THEN DimensionMismatch ELSE "")
    ELSE IF ta = Trans
         THEN (IF xn # r \/ yn # cc THEN DimensionMismatch ELSE "")
         ELSE IllegalTA

Gemv ==
    /\ wrap.pc = "call" /\ wrap.fn = "Gemv"
    /\ wrap' = WrapEnd(wrap, GemvCheck(wrap.tA, wrap.xN, wrap.yN, wrap.rows, wrap.cols),
                       "Dgemv")
    /\ UNCHANGED dgemmVars

Gbmv ==
    /\ wrap.pc = "call" /\ wrap.fn = "Gbmv"
    /\ wrap' = WrapEnd(wrap, GbmvCheck(wrap.tA, wrap.xN, wrap.yN, wrap.rows, wrap.cols),
                       "Dgbmv")
    /\ UNCHANGED dgemmVars

\* if x.N != A.N { panic } ; impl.Dxxx(...): tA is passed on untested
Trmv ==
    /\ wrap.pc = "call" /\ wrap.fn = "Trmv"
    /\ wrap' = WrapEnd(wrap, IF wrap.xN # wrap.aN THEN DimensionMismatch ELSE "", "Dtrmv")
    /\ UNCHANGED dgemmVars

Tbmv ==
    /\ wrap.pc = "call" /\ wrap.fn = "Tbmv"
    /\ wrap' = WrapEnd(wrap, IF wrap.xN # wrap.aN THEN DimensionMismatch ELSE "", "Dtbmv")
    /\ UNCHANGED dgemmVars

Tpmv ==
    /\ wrap.pc = "call" /\ wrap.fn = "Tpmv"
    /\ wrap' = WrapEnd(wrap, IF wrap.xN # wrap.aN THEN DimensionMismatch ELSE "", "Dtpmv")
    /\ UNCHANGED dgemmVars

Trsv ==
    /\ wrap.pc = "call" /\ wrap.fn = "Trsv"
    /\ wrap' = WrapEnd(wrap, IF wrap.xN # wrap.aN THEN DimensionMismatch ELSE "", "Dtrsv")
    /\ UNCHANGED dgemmVars

Tbsv ==
    /\ wrap.pc = "call" /\ wrap.fn = "Tbsv"
    /\ wrap' = WrapEnd(wrap, IF wrap.xN # wrap.aN THEN DimensionMismatch ELSE "", "Dtbsv")
    /\ UNCHANGED dgemmVars

Tpsv ==
    /\ wrap.pc = "call" /\ wrap.fn = "Tpsv"
    /\ wrap' = WrapEnd(wrap, IF wrap.xN # wrap.aN THEN DimensionMismatch ELSE "", "Dtpsv")
    /\ UNCHANGED dgemmVars

\* if x.N != A.N || y.N != A.N { panic } ; impl.Dxxx(...)
Symv ==
    /\ wrap.pc = "call" /\ wrap.fn = "Symv"
    /\ wrap' = WrapEnd(wrap, IF wrap.xN # wrap.aN \/ wrap.yN # wrap.aN
                             THEN DimensionMismatch ELSE "", "Dsymv")
    /\ UNCHANGED dgemmVars

Sbmv ==
    /\ wrap.pc = "call" /\ wrap.fn = "Sbmv"
    /\ wrap' = WrapEnd(wrap, IF wrap.xN # wrap.aN \/ wrap.yN # wrap.aN
                             THEN DimensionMismatch ELSE "", "Dsbmv")
    /\ UNCHANGED dgemmVars

Spmv ==
    /\ wrap.pc = "call" /\ wrap.fn = "Spmv"
    /\ wrap' = WrapEnd(wrap, IF wrap.xN # wrap.aN \/ wrap.yN # wrap.aN
                             THEN DimensionMismatch ELSE "", "Dspmv")
    /\ UNCHANGED dgemmVars

\* if x.N != A.Rows { panic }; if y.N != A.Cols { panic }; impl.Dger(...)
Ger ==
    /\ wrap.pc = "call" /\ wrap.fn = "Ger"
    /\ wrap' = WrapEnd(wrap, IF wrap.xN # wrap.rows THEN DimensionMismatch
                             ELSE IF wrap.yN # wrap.cols THEN DimensionMismatch
                             ELSE "", "Dger")
    /\ UNCHANGED dgemmVars

\* if x.N != A.N { panic } ; impl.Dxxx(...)
Syr ==
    /\ wrap.pc = "call" /\ wrap.fn = "Syr"
    /\ wrap' = WrapEnd(wrap, IF wrap.xN # wrap.aN THEN DimensionMismatch ELSE "", "Dsyr")
    /\ UNCHANGED dgemmVars

Spr ==
    /\ wrap.pc = "call" /\ wrap.fn = "Spr"
    /\ wrap' = WrapEnd(wrap, IF wrap.xN # wrap.aN THEN DimensionMismatch ELSE "", "Dspr")
    /\ UNCHANGED dgemmVars

\* if x.N != A.N || y.N != A.N { panic } ; impl.Dxxx(...)
Syr2 ==
    /\ wrap.pc = "call" /\ wrap.fn = "Syr2"
    /\ wrap' = WrapEnd(wrap, IF wrap.xN # wrap.aN \/ wrap.yN # wrap.aN
                             THEN DimensionMismatch ELSE "", "Dsyr2")
    /\ UNCHANGED dgemmVars

Spr2 ==
    /\ wrap.pc = "call" /\ wrap.fn = "Spr2"
    /\ wrap' = WrapEnd(wrap, IF wrap.xN # wrap.aN \/ wrap.yN # wrap.aN
                             THEN DimensionMismatch ELSE "", "Dspr2")
    /\ UNCHANGED dgemmVars

\* the wrappers by the arguments their tests read
GeneralWrappers == {"Gemv", "Gbmv"}
TriangularWrappers == {"Trmv", "Tbmv", "Tpmv", "Trsv", "Tbsv", "Tpsv"}
SymmetricWrappers == {"Symv", "Sbmv", "Spmv", "Syr2", "Spr2"}
RankOneWrappers == {"Syr", "Spr"}
Dims == 0 .. MaxDim

WrapCall(fn, ta, xn, yn, r, cc, an) ==
    [fn |-> fn, tA |-> ta, xN |-> xn, yN |-> yn, rows |-> r, cols |-> cc,
     aN |-> an, pc |-> "call", kernel |-> "", msg |-> ""]

\* the calls: every wrapper with every combination of the dimensions its
\* tests read (the others 0), and every flag where it takes one
WrapInputs ==
    { WrapCall(fn, ta, xn, yn, r, cc, 0) :
        fn \in GeneralWrappers, ta \in Flags, xn \in Dims, yn \in Dims,
        r \in Dims, cc \in Dims }
    \cup { WrapCall(fn, ta, xn, 0, 0, 0, an) :
        fn \in TriangularWrappers, ta \in Flags, xn \in Dims, an \in Dims }
    \cup { WrapCall(fn, NoTrans, xn, yn, 0, 0, an) :
        fn \in SymmetricWrappers, xn \in Dims, yn \in Dims, an \in Dims }
    \cup { WrapCall("Ger", NoTrans, xn, yn, r, cc, 0) :
        xn \in Dims, yn \in Dims, r \in Dims, cc \in Dims }
    \cup { WrapCall(fn, NoTrans, xn, 0, 0, 0, an) :
        fn \in RankOneWrappers, xn \in Dims, an \in Dims }

\* no Dgemm call is in progress
NoDgemm ==
    /\ tA = NoTrans /\ tB = NoTrans
    /\ m = 0 /\ n = 0 /\ k = 0
    /\ alpha = Num(0) /\ beta = Num(0)
    /\ lda = 1 /\ ldb = 1 /\ ldc = 1
    /\ a = <<>> /\ b = <<>> /\ c = <<>>
    /\ a0 = <<>> /\ b0 = <<>> /\ c0 = <<>>
    /\ procs = 1
    /\ pc = "idle" /\ panicMsg = ""
    /\ amat = NoGeneral /\ bmat = NoGeneral /\ cmat = NoGeneral
    /\ maxKLen = 0 /\ parBlocks = 0 /\ nWorkers = 0 /\ buf = 0
    /\ li = 0 /\ si = 0 /\ sj = 0
    /\ made = FALSE /\ sendChan = <<>> /\ closed = FALSE
    /\ wg = 0
    /\ worker = [w \in Workers |-> NoWorker]
    /\ scaled = {} /\ serialCalls = 0 /\ sent = <<>>
    /\ recvd = [w \in Workers |-> <<>>]
    /\ chunks = {}
    /\ writers = <<>>

WrapInit == NoDgemm /\ \E in \in WrapInputs : wrap = in

WrapNext ==
    \/ Gemv \/ Gbmv
    \/ Trmv \/ Tbmv \/ Tpmv \/ Trsv \/ Tbsv \/ Tpsv
    \/ Symv \/ Sbmv \/ Spmv
    \/ Ger \/ Syr \/ Spr \/ Syr2 \/ Spr2

WrapSpec == WrapInit /\ [][WrapNext]_vars

\* ----------------------------------------------------------- properties
Finite(d) == \A off \in DOMAIN d : ~IsNaN(d[off])
FiniteCall ==
    /\ ~IsNaN(alpha) /\ ~IsNaN(beta)
    /\ Finite(a0) /\ Finite(b0) /\ Finite(c0)

\* the call went through the worker pool / through the whole-matrix kernel
ParallelPath == made
Returned == pc = "done"

\* op(A)[i][l] and op(B)[l][j] of the caller's buffers
OpA(i, l) == IF tA = Trans THEN a0[l * lda + i] ELSE a0[i * lda + l]
OpB(l, j) == IF tB = Trans THEN b0[j * ldb + l] ELSE b0[l * ldb + j]

\* the naive reference: sum over l in 0..kk-1 of op(A)[i][l] * op(B)[l][j]
RECURSIVE RefSum(_, _, _)
RefSum(i, j, kk) ==
    IF kk = 0 THEN 0
    ELSE RefSum(i, j, kk - 1) + OpA(i, kk - 1)[1] * OpB(kk - 1, j)[1]

Ref(i, j) == beta[1] * c0[i * ldc + j][1] + alpha[1] * RefSum(i, j, k)

\* C1: when a call on finite (integer) inputs returns, every element (i, j)
\* of the m x n region of c equals beta*C0[i][j] + alpha * sum_l
\* op(A)[i][l]*op(B)[l][j], for all four flag pairs and on both paths.
C1_DgemmMatchesReference ==
    (Returned /\ FiniteCall) =>
        \A i \in 0 .. m - 1, j \in 0 .. n - 1 : c[i * ldc + j] = Num(Ref(i, j))

\* a returned parallel Trans x Trans call with clipped tiles and two chunks
C1_Witness ==
    /\ Returned /\ FiniteCall /\ ParallelPath
    /\ tA = Trans /\ tB = Trans
    /\ m = MaxM /\ n = MaxN /\ k = MaxK
    /\ \E i \in 0 .. m - 1, j \in 0 .. n - 1 : c[i * ldc + j] # c0[i * ldc + j]

\* what one call of dgemmSerial on the whole matrices leaves in c, applied to
\* the scaled buffer
WholeSerial == dgemmSerial(tA, tB, amat, bmat, cmat, alpha, a0, b0,
                           ScaleC(cmat, beta, c0)).c

\* C2: when a call that went through the worker pool returns, c is exactly
\* what a single dgemmSerial call on the whole matrices produces, whatever
\* the number of workers and the order in which tiles and chunks were done.
\* The claim is one of exact arithmetic: alpha is a finite value (with a
\* non-finite alpha and k = 0 the two paths differ in the NoTrans x Trans
\* kernel, see C23).
C2_ParallelEqualsSerial ==
    (Returned /\ ParallelPath /\ ~IsNaN(alpha)) => c = WholeSerial

\* a returned parallel call in which two workers each took several tiles and
\* every tile took two chunks
C2_Witness ==
    /\ Returned /\ ParallelPath
    /\ maxKLen > blockSize
    /\ \E w1, w2 \in Workers :
          w1 # w2 /\ Len(recvd[w1]) >= 2 /\ Len(recvd[w2]) >= 2
    /\ c # ScaleC(cmat, beta, c0)

\* the tile [i, i+leni) x [j, j+lenj) of c that a task stands for, clipped as
\* the worker clips it, covers the offset; the offsets of the tile a worker
\* is working on (none between tiles)
Covers(t, off) ==
    Visited(view(cmat, t.i, t.j, Clip(t.i, cmat.rows), Clip(t.j, cmat.cols)),
            Clip(t.i, cmat.rows), Clip(t.j, cmat.cols), off)
Held(w) == IF worker[w].pc = "k" THEN Region(worker[w].cSub) ELSE {}
\* the workers that received a tile covering the offset
Owners(off) ==
    { w \in Workers : \E x \in 1 .. Len(recvd[w]) : Covers(recvd[w][x], off) }

NoSharedTile == \A w1, w2 \in Workers : w1 < w2 => Held(w1) \cap Held(w2) = {}

\* C3 as stated: no two workers hold tiles with a common element, and when
\* the parallel call returns every element of the m x n region was stored to
\* by exactly one worker.
C3_ExactlyOneWriter ==
    /\ NoSharedTile
    /\ (Returned /\ ParallelPath) =>
          \A off \in Region(cmat) : Cardinality(writers[off]) = 1

\* C3, amended: no two workers hold tiles with a common element; every
\* element is stored to by at most one worker, which is the one worker that
\* received the tile covering it; when the parallel call returns every
\* element of the m x n region is covered by the tile of exactly one worker
\* (which stored to it unless k = 0 or every multiplier of its row was zero).
C3_AtMostOneWriter ==
    /\ NoSharedTile
    /\ \A off \in DOMAIN writers : \A w \in writers[off] :
          /\ writers[off] = {w}
          /\ ParallelPath => \E x \in 1 .. Len(recvd[w]) : Covers(recvd[w][x], off)
    /\ (Returned /\ ParallelPath) =>
          \A off \in Region(cmat) : Cardinality(Owners(off)) = 1

\* two workers hold tiles at once, each having stored to its own
C3_Witness ==
    \E w1, w2 \in Workers :
        /\ w1 # w2
        /\ \E off \in Held(w1) : writers[off] = {w1}
        /\ \E off \in Held(w2) : writers[off] = {w2}

\* the sent tasks whose clipped tile [i, i+leni) x [j, j+lenj) holds (r, cc)
TilesCovering(r, cc) ==
    { x \in 1 .. Len(sent) :
        /\ sent[x].i <= r /\ r < sent[x].i + Clip(sent[x].i, cmat.rows)
        /\ sent[x].j <= cc /\ cc < sent[x].j + Clip(sent[x].j, cmat.cols) }

ProducerDone == pc \in {"close", "wait", "done"}

\* C4: the tiles enqueued are a strict partition of the output: no element
\* (r, cc) of the m x n region lies in two enqueued tiles, and once the
\* producer has left its loops every element lies in exactly one.
C4_TilesPartitionOutput ==
    ParallelPath =>
        \A r \in 0 .. m - 1, cc \in 0 .. n - 1 :
            \E cnt \in {Cardinality(TilesCovering(r, cc))} :
                cnt <= 1 /\ (ProducerDone => cnt = 1)

\* the producer has sent every tile of an output whose sides are no
\* multiples of blockSize
C4_Witness ==
    /\ ParallelPath /\ pc = "close"
    /\ m % blockSize # 0 /\ n % blockSize # 0
    /\ Len(sent) > minParBlock

\* the starts of the chunks of the contraction range [0, maxKLen)
ChunkStarts == { kk \in 0 .. maxKLen - 1 : kk % blockSize = 0 }

\* C5: fork-join.  In the state in which a parallel call has returned the
\* channel is closed and drained, all nWorkers workers have exited (none is
\* receiving or inside a tile, so none stores to c later), the wait group is
\* at zero, and every enqueued tile has had a kernel invocation for every
\* chunk of the contraction range.
C5_ForkJoin ==
    (Returned /\ ParallelPath) =>
        /\ closed /\ sendChan = <<>> /\ wg = 0
        /\ \A w \in Workers :
              worker[w].pc = IF w <= nWorkers THEN "exit" ELSE "none"
        /\ \A x \in 1 .. Len(sent), kk \in ChunkStarts :
              \E ch \in chunks :
                  /\ ch.i = sent[x].i /\ ch.j = sent[x].j
                  /\ ch.k = kk /\ ch.lenk = Clip(kk, maxKLen)

\* a parallel call with several workers and two chunks per tile has returned
C5_Witness ==
    /\ Returned /\ ParallelPath
    /\ nWorkers > 1 /\ maxKLen > blockSize
    /\ Len(sent) > minParBlock

\* C6: every call that passed validation eventually returns, under weak
\* fairness of the calling goroutine and of each worker: the producer
\* blocked on a full channel is unblocked, every worker receives a task or
\* sees the close, and wg.Wait passes.
C6_ValidCallReturns == (pc = "scale") ~> Returned

\* the producer is blocked on a full channel while tiles remain to be sent
C6_Witness ==
    /\ pc = "send" /\ Len(sendChan) = buf
    /\ \E w \in Workers : worker[w].pc = "k"

ValidationPcs == {"checkA", "checkB", "checkC", "checkFlags"}
Failed == pc = "panic"
NothingStarted ==
    /\ ~made /\ sendChan = <<>> /\ wg = 0 /\ serialCalls = 0
    /\ \A w \in Workers : worker[w].pc = "none"

\* C7: a call that fails fails in validation (a failed check of a, b or c,
\* or a bad transpose flag), before the scaling pass and before any channel
\* or worker exists: in the failure state a, b and c are element for element
\* what the caller passed and nothing was started.
C7_FailureLeavesNoTrace ==
    Failed =>
        /\ panicMsg \in {"check", "badTranspose"}
        /\ c = c0 /\ a = a0 /\ b = b0
        /\ scaled = {}
        /\ NothingStarted

\* a call that would have scaled c and gone parallel failed on a flag
C7_Witness ==
    /\ Failed /\ panicMsg = "badTranspose"
    /\ ScaleC(cmat, beta, c0) # c0
    /\ NumBlocks(m) * NumBlocks(n) >= minParBlock

\* C8: a call with tA or tB outside {NoTrans, Trans} never gets past
\* validation: it is validating or has failed, it never scales c, never
\* dispatches a kernel and never reaches dgemmSerial's default case.
C8_BadFlagNeverDispatched ==
    (tA \notin ValidFlags \/ tB \notin ValidFlags) =>
        /\ pc \in ValidationPcs \cup {"panic"}
        /\ panicMsg # "unreachable"
        /\ scaled = {} /\ c = c0
        /\ NothingStarted

\* a call whose other arguments are valid failed on its flag tA alone
C8_Witness ==
    /\ Failed /\ panicMsg = "badTranspose"
    /\ tA = BadTrans /\ tB = Trans
    /\ m > 0 /\ n > 0 /\ k > 0

\* what the call leaves in c when the caller's c holds init instead
ResultFrom(init) ==
    dgemmSerial(tA, tB, amat, bmat, cmat, alpha, a0, b0, ScaleC(cmat, beta, init)).c
ZeroC == [off \in DOMAIN c0 |-> Num(0)]

\* C9: with beta = 0 the c a call returns does not depend on the contents
\* of c at the call: it is what the same call returns on a zeroed c, also
\* when c held a non-finite value.
C9_BetaZeroForgetsC ==
    (Returned /\ beta = Num(0)) =>
        \A off \in Region(cmat) : c[off] = ResultFrom(ZeroC)[off]

\* C10: a call with alpha = 0 and beta = 1 that returns leaves every element
\* of the m x n region of c as it was at the call.
C10_AlphaZeroBetaOneKeepsC ==
    (Returned /\ alpha = Num(0) /\ beta = Num(1)) =>
        \A off \in Region(cmat) : c[off] = c0[off]

\* the tile count computeNumBlocks returns for the operands of the call
PlannedBlocks == computeNumBlocks(amat, bmat, tA = Trans, tB = Trans).parBlocks
\* a channel, a worker, a wait-group count or a sent task exists
PoolStarted ==
    \/ made \/ wg > 0 \/ sent # <<>> \/ sendChan # <<>>
    \/ \E w \in Workers : worker[w].pc # "none"

\* C11: with fewer than minParBlock output tiles dgemmParallel makes no
\* channel and starts no worker; it calls dgemmSerial once on the whole a, b,
\* c and returns with that call's result.  A channel or a worker exists only
\* when parBlocks >= minParBlock, and then dgemmSerial is never called on the
\* whole matrices.
C11_SmallRunsSerial ==
    /\ serialCalls <= 1
    /\ PoolStarted => PlannedBlocks >= minParBlock /\ serialCalls = 0
    /\ (Returned /\ PlannedBlocks < minParBlock) =>
          /\ ~PoolStarted /\ serialCalls = 1 /\ chunks = {}
          /\ c = WholeSerial

\* a call whose output has several tiles, but fewer than minParBlock, has
\* returned through the whole-matrix kernel call
C11_Witness ==
    /\ Returned /\ serialCalls = 1 /\ ~PoolStarted
    /\ parBlocks > 1 /\ parBlocks < minParBlock
    /\ c # c0

\* C12: no element of a or b is stored to at any point of a call, on the
\* serial or on the parallel path, by the caller or by a worker: in every
\* state, also between the kernel invocations of concurrent workers and in
\* a failure state, a and b are the buffers the caller passed.
C12_InputsNeverWritten == a = a0 /\ b = b0

\* two workers are inside tiles of a call whose kernels have stored to c
C12_Witness ==
    /\ ParallelPath /\ tA = NoTrans /\ tB = NoTrans
    /\ \E w1, w2 \in Workers : w1 # w2 /\ worker[w1].pc = "k" /\ worker[w2].pc = "k"
    /\ \E off \in DOMAIN writers : writers[off] # {}
    /\ a0 # [off \in DOMAIN a0 |-> Num(0)]

\* what the dimension test of a wrapper demands of its arguments
WrapDimsOK(w) ==
    CASE w.fn \in GeneralWrappers ->
           \/ w.tA = NoTrans /\ w.xN = w.cols /\ w.yN = w.rows
           \/ w.tA = Trans /\ w.xN = w.rows /\ w.yN = w.cols
      [] w.fn \in TriangularWrappers \cup RankOneWrappers -> w.xN = w.aN
      [] w.fn \in SymmetricWrappers -> w.xN = w.aN /\ w.yN = w.aN
      [] w.fn = "Ger" -> w.xN = w.rows /\ w.yN = w.cols
      [] OTHER -> FALSE
\* the routine a wrapper delegates to
WrapKernel ==
    [Gemv |-> "Dgemv", Gbmv |-> "Dgbmv", Trmv |-> "Dtrmv", Tbmv |-> "Dtbmv",
     Tpmv |-> "Dtpmv", Trsv |-> "Dtrsv", Tbsv |-> "Dtbsv", Tpsv |-> "Dtpsv",
     Symv |-> "Dsymv", Sbmv |-> "Dsbmv", Spmv |-> "Dspmv", Ger |-> "Dger",
     Syr |-> "Dsyr", Spr |-> "Dspr", Syr2 |-> "Dsyr2", Spr2 |-> "Dspr2"]

\* C13: a level-2 wrapper calls its kernel only when its dimension test has
\* passed, and otherwise panics without having called it.  For Gemv and Gbmv
\* the test is x.N = A.Cols and y.N = A.Rows under NoTrans, x.N = A.Rows and
\* y.N = A.Cols under Trans, and any other tA is an illegal value.
C13_WrapperChecksThenCalls ==
    /\ wrap.pc = "call" => wrap.kernel = "" /\ wrap.msg = ""
    /\ wrap.pc = "done" =>
          /\ WrapDimsOK(wrap)
          /\ wrap.kernel = WrapKernel[wrap.fn] /\ wrap.msg = ""
    /\ wrap.pc = "panic" =>
          /\ ~WrapDimsOK(wrap)
          /\ wrap.kernel = ""
          /\ wrap.msg = IF wrap.fn \in GeneralWrappers /\ wrap.tA \notin ValidFlags
                        THEN IllegalTA ELSE DimensionMismatch

\* Gbmv has called its kernel on a transposed, non-square A
C13_Witness ==
    /\ wrap.fn = "Gbmv" /\ wrap.pc = "done" /\ wrap.kernel = "Dgbmv"
    /\ wrap.tA = Trans /\ wrap.rows # wrap.cols

\* how often a task occurs in a sequence of tasks
Count(seq, t) == Cardinality({ x \in 1 .. Len(seq) : seq[x] = t })
\* the receptions of task t: <<w, x>> when t was the x-th task worker w took
Deliveries(t) ==
    { wx \in UNION { {w} \X (1 .. Len(recvd[w])) : w \in Workers } :
        recvd[wx[1]][wx[2]] = t }
\* the tasks sent, buffered or received
KnownTasks ==
    { sent[x] : x \in 1 .. Len(sent) } \cup { sendChan[x] : x \in 1 .. Len(sendChan) }
    \cup UNION { { recvd[w][x] : x \in 1 .. Len(recvd[w]) } : w \in Workers }

\* C14: every task put on the channel is received exactly once, by one
\* worker.  In every state a task was sent as often as it is buffered or
\* was received, and it was received at most once; when the call returns
\* the channel is empty, the tasks buffered at the close included, so the
\* tiles the workers took are exactly the tiles sent, each taken once.
C14_EachTaskReceivedOnce ==
    /\ \A t \in KnownTasks :
          /\ Count(sent, t) = Count(sendChan, t) + Cardinality(Deliveries(t))
          /\ Cardinality(Deliveries(t)) <= 1
    /\ (Returned /\ ParallelPath) =>
          /\ sendChan = <<>>
          /\ \A t \in KnownTasks : Cardinality(Deliveries(t)) = 1

\* the channel is closed with several tasks still buffered, after two
\* workers have each taken a task
C14_Witness ==
    /\ closed /\ Len(sendChan) >= 2
    /\ \E w1, w2 \in Workers :
          w1 # w2 /\ Len(recvd[w1]) >= 1 /\ Len(recvd[w2]) >= 1

\* the x-th tile of the output in row-major tile order, and the tile count
TileAt(x) ==
    [i |-> ((x - 1) \div NumBlocks(cmat.cols)) * blockSize,
     j |-> ((x - 1) % NumBlocks(cmat.cols)) * blockSize]
TileCount == NumBlocks(cmat.rows) * NumBlocks(cmat.cols)

\* C15: the producer sends the tiles of the output in row-major tile order,
\* each once: what it has sent is always the first Len(sent) tiles of that
\* order.  It closes the channel once, after the last tile: once the channel
\* is closed every tile has been sent and the producer is past its sends and
\* its close for good, and a parallel call does not return without the close.
C15_ProducerOrderThenClose ==
    /\ ParallelPath =>
          /\ Len(sent) <= TileCount
          /\ \A x \in 1 .. Len(sent) : sent[x] = TileAt(x)
          /\ pc = "close" => Len(sent) = TileCount /\ ~closed
    /\ closed => ParallelPath /\ Len(sent) = TileCount /\ pc \in {"wait", "done"}
    /\ (Returned /\ ParallelPath) => closed
    /\ ~ParallelPath => sent = <<>> /\ ~closed

\* the channel is closed after the six tiles of a MaxM x MaxN output, the
\* last of each row clipped
C15_Witness ==
    /\ closed /\ pc = "wait"
    /\ Len(sent) = TileCount /\ TileCount > minParBlock
    /\ NumBlocks(n) > 2 /\ n % blockSize # 0

\* the worker goroutines that have been started
Started == { w \in Workers : worker[w].pc # "none" }

CeilBlocks(x) == (x + blockSize - 1) \div blockSize
\* validation has passed: amat, bmat and cmat are the operands of the call
Validated == pc \notin ValidationPcs \cup {"panic", "idle"}
\* dgemmParallel is past its call of computeNumBlocks
Planned == pc = "done" \/ ParallelPath

\* C17: for the operands Dgemm builds from (m, n, k), in all four flag
\* pairs, computeNumBlocks returns maxKLen = k and parBlocks =
\* ceil(m/blockSize) * ceil(n/blockSize); these are the values dgemmParallel
\* works with, and on the parallel path the producer's loops send exactly
\* parBlocks tasks.
C17_PlanMatchesOutputTiling ==
    /\ Validated =>
          computeNumBlocks(amat, bmat, tA = Trans, tB = Trans) =
              [maxKLen |-> k, parBlocks |-> CeilBlocks(m) * CeilBlocks(n)]
    /\ Planned =>
          /\ maxKLen = k
          /\ parBlocks = CeilBlocks(m) * CeilBlocks(n)
    /\ ParallelPath =>
          /\ Len(sent) <= parBlocks
          /\ ProducerDone => Len(sent) = parBlocks

\* the producer of a Trans x NoTrans call has sent all tiles of an output
\* whose sides are no multiples of blockSize and differ from k
C17_Witness ==
    /\ ParallelPath /\ ProducerDone
    /\ tA = Trans /\ tB = NoTrans
    /\ m % blockSize # 0 /\ n % blockSize # 0
    /\ k > 0 /\ k # m /\ k # n
    /\ Len(sent) = CeilBlocks(m) * CeilBlocks(n)

\* the kernel invocation of worker w on tile t for the chunk starting at kk:
\* the chunk is [kk, min(kk + blockSize, maxKLen))
ChunkAt(w, t, kk) ==
    [w |-> w, i |-> t.i, j |-> t.j, k |-> kk, lenk |-> Min(kk + blockSize, maxKLen) - kk]
\* worker w has done every chunk of tile t
TileDone(w, t) == \A kk \in ChunkStarts : ChunkAt(w, t, kk) \in chunks
\* the kernel invocations worker w has made
ChunksOf(w) == { ch \in chunks : ch.w = w }

\* where the workers stand: a worker inside a tile is on the tile it received
\* last and has done exactly the chunks below its k; every tile it received
\* before is done; every kernel invocation is a non-empty chunk of a tile
\* its worker received
ChunksInOrder ==
    \A w \in Workers :
        /\ worker[w].pc = "k" =>
              /\ Len(recvd[w]) >= 1
              /\ recvd[w][Len(recvd[w])] = [i |-> worker[w].i, j |-> worker[w].j]
              /\ worker[w].k \in ChunkStarts
              /\ \A kk \in ChunkStarts :
                    ChunkAt(w, worker[w], kk) \in chunks <=> kk < worker[w].k
        /\ \A x \in 1 .. Len(recvd[w]) :
              (x < Len(recvd[w]) \/ worker[w].pc # "k") => TileDone(w, recvd[w][x])
        /\ \A ch \in ChunksOf(w) :
              /\ ch.k \in ChunkStarts /\ ch.lenk >= 1
              /\ ch = ChunkAt(w, ch, ch.k)
              /\ \E x \in 1 .. Len(recvd[w]) : recvd[w][x] = [i |-> ch.i, j |-> ch.j]

\* a step seen from worker w: a kernel invocation is the chunk at the
\* worker's k of its own tile, not done before, and moves k up by blockSize
\* on the same tile; a tile is taken only between tiles, all chunks of the
\* earlier ones done; a step of another goroutine makes no invocation for w
ChunkStep(w) ==
    /\ (worker[w].pc = "k" /\ worker'[w] # worker[w]) =>
          /\ ChunkAt(w, worker[w], worker[w].k) \notin chunks
          /\ chunks' = chunks \cup {ChunkAt(w, worker[w], worker[w].k)}
          /\ worker'[w].i = worker[w].i /\ worker'[w].j = worker[w].j
          /\ worker'[w].cSub = worker[w].cSub
          /\ worker'[w].k = worker[w].k + blockSize
          /\ worker'[w].pc = IF worker'[w].k < maxKLen THEN "k" ELSE "recv"
          /\ recvd'[w] = recvd[w]
    /\ recvd'[w] # recvd[w] =>
          /\ worker[w].pc = "recv"
          /\ \A x \in 1 .. Len(recvd[w]) : TileDone(w, recvd[w][x])
          /\ worker'[w].k = 0
          /\ chunks' = chunks
    /\ worker'[w] = worker[w] => ChunksOf(w)' = ChunksOf(w)

\* C18: the worker that received a tile walks the contraction range itself,
\* in ascending chunks [k0, min(k0 + blockSize, maxKLen)), k0 = 0, blockSize,
\* ...: each chunk once, none empty, the last one clipped, together covering
\* [0, maxKLen); it takes its next tile only after the last chunk of the
\* tile it is on.
C18_ChunksAscendingPerTile ==
    /\ []ChunksInOrder
    /\ [][\A w \in Workers : ChunkStep(w)]_vars

\* a worker that has finished a tile of two chunks, the second clipped, is
\* in its next tile with the first chunk done
C18_Witness ==
    \E w \in Workers :
        /\ worker[w].pc = "k" /\ worker[w].k = blockSize
        /\ Len(recvd[w]) >= 2
        /\ maxKLen > blockSize /\ maxKLen % blockSize # 0

\* the kernel invocations about to be made: by a worker inside a tile, for
\* the chunk at its k, and by dgemmParallel on its serial path
NextChunk(w) ==
    [by |-> w, lenk |-> Clip(worker[w].k, maxKLen),
     a |-> ASub(w, worker[w].k, Clip(worker[w].k, maxKLen)),
     b |-> BSub(w, worker[w].k, Clip(worker[w].k, maxKLen)),
     c |-> worker[w].cSub]
PendingCalls ==
    { NextChunk(w) : w \in { x \in Workers : worker[x].pc = "k" } }
    \cup (IF pc = "dgemmParallel" /\ BelowMinParBlock(PlannedBlocks)
          THEN {[by |-> 0, lenk |-> k, a |-> amat, b |-> bmat, c |-> cmat]}
          ELSE {})
\* the contraction length and the outer dimension of a view of a and of b
InnerA(ga) == IF tA = Trans THEN ga.rows ELSE ga.cols
OuterA(ga) == IF tA = Trans THEN ga.cols ELSE ga.rows
InnerB(gb) == IF tB = Trans THEN gb.cols ELSE gb.rows
OuterB(gb) == IF tB = Trans THEN gb.rows ELSE gb.cols

\* C19: every kernel invocation, in all four flag pairs and for every tile
\* and chunk, clipped ones included, passes views that pass the kernel's
\* tests under debug: the contraction lengths of aSub and bSub are both
\* lenk, and their outer dimensions are cSub's rows (leni) and cols (lenj).
C19_KernelShapesAgree ==
    \A inv \in PendingCalls :
        /\ debugTests(tA, tB, inv.a, inv.b, inv.c) = ""
        /\ InnerA(inv.a) = inv.lenk /\ InnerB(inv.b) = inv.lenk
        /\ OuterA(inv.a) = inv.c.rows /\ OuterB(inv.b) = inv.c.cols
        /\ inv.by # 0 =>
              /\ inv.c.rows = worker[inv.by].leni
              /\ inv.c.cols = worker[inv.by].lenj

\* a worker of a Trans x Trans call is about to run the kernel on the
\* clipped chunk of a clipped tile whose sides differ
C19_Witness ==
    /\ tA = Trans /\ tB = Trans
    /\ \E w \in Workers :
          /\ worker[w].pc = "k" /\ worker[w].k > 0
          /\ worker[w].leni < blockSize /\ worker[w].lenj = blockSize
          /\ NextChunk(w).lenk < worker[w].lenj

\* a view request (i, j, r, c) that has a row and a column and lies inside
\* the rows x cols extent of its parent g
InExtent(g, q) ==
    /\ 0 <= q.i /\ 0 <= q.j
    /\ q.r >= 1 /\ q.c >= 1
    /\ q.i + q.r <= g.rows
    /\ q.j + q.c <= g.cols
\* a tile origin inside the m x n output, on the blockSize grid
OriginOK(t) ==
    /\ 0 <= t.i /\ t.i < m /\ t.i % blockSize = 0
    /\ 0 <= t.j /\ t.j < n /\ t.j % blockSize = 0
\* the arguments of the worker's c.view(i, j, leni, lenj)
CSubArgs(w) ==
    [i |-> worker[w].i, j |-> worker[w].j, r |-> worker[w].leni, c |-> worker[w].lenj]

\* C20: every task, sent, buffered or received, has its origin inside the
\* output on the blockSize grid, and every view a worker requests of c, a
\* and b has at least one row and one column and lies inside its parent.
C20_TilesAndViewsInBounds ==
    /\ \A x \in 1 .. Len(sent) : OriginOK(sent[x])
    /\ \A x \in 1 .. Len(sendChan) : OriginOK(sendChan[x])
    /\ \A w \in Workers :
          /\ \A x \in 1 .. Len(recvd[w]) : OriginOK(recvd[w][x])
          /\ recvd[w] # <<>> =>
                /\ InExtent(cmat, CSubArgs(w))
                /\ worker[w].cSub = view(cmat, worker[w].i, worker[w].j,
                                         worker[w].leni, worker[w].lenj)
          /\ worker[w].pc = "k" =>
                \E lenk \in {Clip(worker[w].k, maxKLen)} :
                    /\ InExtent(amat, ASubArgs(w, worker[w].k, lenk))
                    /\ InExtent(bmat, BSubArgs(w, worker[w].k, lenk))

\* a worker is about to take the last, clipped chunk of the tile in the
\* last row and last column of tiles, clipped on both sides, in a call with
\* tA = Trans
C20_Witness ==
    /\ tA = Trans /\ tB = NoTrans
    /\ \E w \in Workers :
          /\ worker[w].pc = "k"
          /\ worker[w].i > 0 /\ worker[w].j > 0 /\ worker[w].k > 0
          /\ worker[w].i + blockSize > m /\ worker[w].j + blockSize > n
          /\ worker[w].k + blockSize > maxKLen

\* row i has pairs (i, l), and alpha * op(A)[i][l] is zero for each of them
NoMultiplier(i) ==
    k > 0 /\ \A l \in 0 .. k - 1 : ~NonZero(Mul(alpha, OpA(i, l)))

\* C21: a zero multiplier alpha * op(A)[i][l] skips the accumulation pass
\* of the pair (i, l) in each of the four kernels: a row i of c whose pairs
\* (there is at least one) all have a zero multiplier is stored to by no
\* kernel invocation.
C21_ZeroMultiplierSkips ==
    \A off \in DOMAIN writers :
        (Visited(cmat, m, n, off) /\ NoMultiplier(Row(cmat, off)))
            => writers[off] = {}

\* Dgemm has not finished its scaling pass / has finished it and gone on
BeforeScaled == pc \in ValidationPcs \cup {"scale"}
AfterScaled == Validated /\ pc # "scale"
\* no kernel has run and no goroutine, channel or task exists
NoKernelNoWorker ==
    /\ ~PoolStarted /\ serialCalls = 0 /\ chunks = {}
    /\ \A off \in DOMAIN writers : writers[off] = {}

\* C22: the scaling pass is complete on the whole m x n region before
\* dgemmParallel is entered: while Dgemm validates or scales, no worker, no
\* channel and no kernel invocation exists; from the entry of dgemmParallel
\* on the pass has covered the region (with beta # 1) and never runs again,
\* and every element no kernel has yet stored to holds beta times the
\* caller's value, so a worker only ever accumulates into scaled elements.
C22_ScaledBeforeAnyWorker ==
    /\ BeforeScaled => NoKernelNoWorker
    /\ pc = "dgemmParallel" => NoKernelNoWorker
    /\ AfterScaled =>
          /\ scaled = (IF beta # Num(1) THEN Region(cmat) ELSE {})
          /\ \A off \in DOMAIN c :
                (writers[off] = {} /\ Visited(cmat, m, n, off))
                    => c[off] = Mul(c0[off], beta)

\* with beta # 1, two workers are inside tiles: some elements of the last
\* row of c have been accumulated into, others of that row not yet
C22_Witness ==
    /\ beta # Num(1) /\ AfterScaled
    /\ \E w1, w2 \in Workers : w1 # w2 /\ worker[w1].pc = "k" /\ worker[w2].pc = "k"
    /\ \E o1, o2 \in DOMAIN writers :
          /\ Visited(cmat, m, n, o1) /\ Visited(cmat, m, n, o2)
          /\ Row(cmat, o1) = m - 1 /\ Row(cmat, o2) = m - 1
          /\ writers[o1] # {} /\ writers[o2] = {}

\* C23: degenerate dimensions.  With k = 0 and m, n > 0 a call that
\* returns leaves beta * c0 in every element of the m x n region, on both
\* paths; on the parallel path every tile was sent and received and no pass
\* of a k loop ran.  With m = 0 or n = 0 parBlocks is 0, no channel or
\* worker is made, dgemmSerial is called on the whole views and no element
\* of the buffer c is stored to.
C23_DegenerateDimensions ==
    /\ (Returned /\ k = 0 /\ m > 0 /\ n > 0) =>
          /\ \A off \in DOMAIN c :
                Visited(cmat, m, n, off) => c[off] = Mul(c0[off], beta)
          /\ ParallelPath =>
                /\ Len(sent) = parBlocks /\ sendChan = <<>> /\ chunks = {}
                /\ \A x \in 1 .. Len(sent) :
                      \E w \in Workers : \E y \in 1 .. Len(recvd[w]) :
                          recvd[w][y] = sent[x]
    /\ (AfterScaled /\ (m = 0 \/ n = 0)) =>
          /\ PlannedBlocks = 0 /\ ~PoolStarted
          /\ c = c0 /\ scaled = {}
          /\ \A off \in DOMAIN writers : writers[off] = {}
          /\ Returned => serialCalls = 1

\* the offsets of the buffer c outside the logical m x n region: the
\* columns n .. ldc - 1 of a row, and everything past row m - 1
Outside(off) == off % ldc >= n \/ off \div ldc >= m

\* C24: with ldc > n no element of the buffer c outside the m x n region is
\* ever stored to: the scaling pass and every kernel invocation, on the whole
\* view or on a tile, leave it as the caller passed it.
C24_PaddingNeverWritten ==
    ldc > n =>
        \A off \in DOMAIN c :
            Outside(off) =>
                /\ c[off] = c0[off]
                /\ off \notin scaled
                /\ writers[off] = {}

\* a parallel call with ldc > n and beta # 1 has returned; the kernels have
\* stored to the last element of every row of the region, and the padding
\* after it holds a non-zero value
C24_Witness ==
    /\ Returned /\ ParallelPath /\ ldc > n /\ beta # Num(1)
    /\ m > blockSize /\ n > blockSize
    /\ \A r \in 0 .. m - 1 :
          /\ writers[r * ldc + n - 1] # {}
          /\ Outside(r * ldc + n) /\ (r * ldc + n) \notin scaled
    /\ \E r \in 0 .. m - 1 : NonZero(c0[r * ldc + n])
    /\ Outside(m * ldc) /\ m * ldc \in DOMAIN c

====
